---- MODULE Spec2Model ----
(***************************************************************************)
(* Bid Glass bid adapter (modules/bidglassBidAdapter.js): buildRequests    *)
(* turns the valid slot bid requests of one auction into one POST request, *)
(* interpretResponse turns the server's answer into bid results.           *)
(*                                                                         *)
(* JavaScript values are tagged records, so that the code's dynamic tests  *)
(* (isArray, typeof, truthiness, != null) are computed and not assumed:    *)
(*   [t |-> "undefined"], [t |-> "null"], [t |-> "bool", v |-> b],         *)
(*   [t |-> "num", v |-> n], [t |-> "str", v |-> s],                       *)
(*   [t |-> "arr", v |-> <<...>>], [t |-> "obj", v |-> [key |-> value]],   *)
(*   [t |-> "fn", v |-> name of the function's behaviour].                 *)
(* Strings are TLA+ strings; Len, SubSeq and \o act on their characters.   *)
(***************************************************************************)
EXTENDS Integers, Sequences, FiniteSets, TLC

VARIABLES
  window,            \* the frame the adapter runs in (location, referrer, bidglass global)
  validBidRequests,  \* the caller's slot bid request objects (mutable, shared with the host)
  bidderRequest,     \* the auction-level request (consent objects, ortb2)
  given,             \* history: validBidRequests as the host passed them to buildRequests
  serverRequest,     \* what buildRequests returned, echoed back to interpretResponse
  serverResponse,    \* the server's answer
  bidResponses,      \* what interpretResponse returned
  pc                 \* "start" -> "built" -> "responded" -> "interpreted"

vars == <<window, validBidRequests, bidderRequest, given, serverRequest,
          serverResponse, bidResponses, pc>>

(***************************************************************************)
(* Bounds of the model                                                     *)
(***************************************************************************)
MaxSlots == 2    \* slot bid requests in one buildRequests call
MaxSizes == 2    \* entries of one slot's sizes list
MaxDepth == 2    \* nesting depth of the frame (0 = top frame)
MaxBids == 2     \* entries of the server's bidResponses list

(***************************************************************************)
(* JavaScript values                                                       *)
(***************************************************************************)
Undef == [t |-> "undefined"]
Null == [t |-> "null"]
Bool(b) == [t |-> "bool", v |-> b]
Num(n) == [t |-> "num", v |-> n]
Str(s) == [t |-> "str", v |-> s]
Arr(s) == [t |-> "arr", v |-> s]
Obj(f) == [t |-> "obj", v |-> f]
Fn(name) == [t |-> "fn", v |-> name]
EmptyObj == Obj([k \in {} |-> Undef])

\* ToBoolean
Truthy(x) ==
  CASE x.t = "undefined" -> FALSE
    [] x.t = "null" -> FALSE
    [] x.t = "bool" -> x.v
    [] x.t = "num" -> x.v # 0
    [] x.t = "str" -> x.v # ""
    [] OTHER -> TRUE

\* a && b, a || b
And(a, b) == IF Truthy(a) THEN b ELSE a
Or(a, b) == IF Truthy(a) THEN a ELSE b

\* o[k], o.k (undefined when the property is missing)
Prop(o, k) == IF o.t = "obj" /\ k \in DOMAIN o.v THEN o.v[k] ELSE Undef
\* a[i], 0-based
Index(a, i) == IF a.t = "arr" /\ (i + 1) \in DOMAIN a.v THEN a.v[i + 1] ELSE Undef
\* o.k = v
SetProp(o, k, val) ==
  Obj([x \in (DOMAIN o.v) \cup {k} |-> IF x = k THEN val ELSE o.v[x]])
\* delete o.k
DeleteProp(o, k) == Obj([x \in (DOMAIN o.v) \ {k} |-> o.v[x]])
\* Object.keys(x).length
NumKeys(x) ==
  CASE x.t = "obj" -> Cardinality(DOMAIN x.v)
    [] x.t = "arr" -> Len(x.v)
    [] x.t = "str" -> Len(x.v)
    [] OTHER -> 0
\* x != null (loose: false for null and undefined only)
NotNullish(x) == x.t \notin {"undefined", "null"}

isArray(x) == x.t = "arr"

(***************************************************************************)
(* Strings                                                                 *)
(***************************************************************************)
RECURSIVE ToStr(_)
RECURSIVE JoinFrom(_, _, _)
\* Array.prototype.join from element i on: null and undefined elements give ""
JoinFrom(s, sep, i) ==
  IF i > Len(s) THEN ""
  ELSE (IF NotNullish(s[i]) THEN ToStr(s[i]) ELSE "")
       \o (IF i < Len(s) THEN sep \o JoinFrom(s, sep, i + 1) ELSE "")
Join(a, sep) == JoinFrom(a.v, sep, 1)
\* ToString
ToStr(x) ==
  CASE x.t = "str" -> x.v
    [] x.t = "num" -> ToString(x.v)
    [] x.t = "bool" -> (IF x.v THEN "true" ELSE "false")
    [] x.t = "undefined" -> "undefined"
    [] x.t = "null" -> "null"
    [] x.t = "arr" -> Join(x, ",")
    [] OTHER -> "[object Object]"

\* a + b on strings
Plus(a, b) == Str(ToStr(a) \o ToStr(b))

\* position (1-based) of the first occurrence of pat in s, 0 when there is none
IndexOf(s, pat) ==
  LET hits == {i \in 1..(Len(s) - Len(pat) + 1) : SubSeq(s, i, i + Len(pat) - 1) = pat}
  IN IF hits = {} THEN 0 ELSE CHOOSE i \in hits : \A j \in hits : i <= j

\* String.prototype.replace(pat, () => repl) with a string pattern: the first
\* occurrence only, the replacement inserted literally
ReplaceFirst(s, pat, repl) ==
  LET i == IndexOf(s, pat)
  IN IF i = 0 THEN s
     ELSE SubSeq(s, 1, i - 1) \o repl \o SubSeq(s, i + Len(pat), Len(s))

RECURSIVE SplitFrom(_, _, _, _)
\* String.prototype.split(sep), sep one character: the pieces of s from
\* position i on, cur being the piece read so far
SplitFrom(s, sep, i, cur) ==
  IF i > Len(s) THEN <<cur>>
  ELSE IF SubSeq(s, i, i) = sep THEN <<cur>> \o SplitFrom(s, sep, i + 1, "")
  ELSE SplitFrom(s, sep, i + 1, cur \o SubSeq(s, i, i))
Split(s, sep) ==
  LET pieces == SplitFrom(s, sep, 1, "")
  IN Arr([i \in DOMAIN pieces |-> Str(pieces[i])])

(***************************************************************************)
(* Helpers of src/utils.js, as the adapter uses them                       *)
(***************************************************************************)
\* getBidIdParameter(key, paramsObj): the parameter, or '' when it is missing or falsy
getBidIdParameter(key, paramsObj) == Or(Prop(paramsObj, key), Str(""))

\* deepClone(obj): a fresh object graph with the same contents; values here
\* carry no identity, so the copy is the value itself and later writes to the
\* copy (DeleteProp, SetProp) never reach the original
deepClone(obj) == obj

(***************************************************************************)
(* isBidRequestValid                                                       *)
(***************************************************************************)
isBidRequestValid(bid) == Truthy(Prop(bid.params, "adUnitId"))

(***************************************************************************)
(* buildRequests: per-slot part                                            *)
(***************************************************************************)
\* bid.sizes after lines 81-82
normalizeSizes(sizes) ==
  LET wrapped == IF isArray(sizes) /\ isArray(Index(sizes, 0)) THEN sizes ELSE Arr(<<sizes>>)
  IN Arr(SelectSeq(wrapped.v, isArray))

\* bidglass.getTargeting(adUnitId, targeting): the page's targeting provider,
\* a synchronous function of its two arguments
CallGetTargeting(fn, adUnitId, targeting) ==
  CASE fn.v = "nothing" -> Undef
    [] fn.v = "empty" -> EmptyObj
    [] fn.v = "page" -> Obj([page |-> Str("sports")])
    [] fn.v = "merge" ->
         IF targeting.t = "obj" THEN SetProp(targeting, "page", Str("sports"))
         ELSE Obj([page |-> Str("sports")])
    [] fn.v = "byUnit" ->
         IF adUnitId = Num(11) THEN Obj([unit |-> Str("eleven")]) ELSE EmptyObj

\* options after lines 85-94, the params untouched
AlwaysOverwriteTargeting(bidglass, adUnitId, options) ==
  IF bidglass.t = "obj" /\ Truthy(Prop(bidglass, "getTargeting"))
  THEN SetProp(options, "targeting",
               CallGetTargeting(Prop(bidglass, "getTargeting"), adUnitId,
                                Prop(options, "targeting")))
  ELSE options

mergeTargeting(bidglass, adUnitId, options) ==
  IF bidglass.t = "obj" /\ Truthy(Prop(bidglass, "getTargeting"))
  THEN LET targeting == CallGetTargeting(Prop(bidglass, "getTargeting"), adUnitId,
                                         Prop(options, "targeting"))
       IN IF Truthy(targeting) /\ NumKeys(targeting) > 0
          THEN SetProp(options, "targeting", targeting)
          ELSE options
  ELSE options

\* the options of one slot: a deep copy of its params without adUnitId, the
\* targeting merged
optionsOf(bid, bidglass) ==
  mergeTargeting(bidglass, getBidIdParameter("adUnitId", bid.params),
                 DeleteProp(deepClone(bid.params), "adUnitId"))

\* the impression pushed for one slot (lines 97-102)
impOf(bid, bidglass) ==
  Obj([bidId |-> bid.bidId,
       sizes |-> normalizeSizes(bid.sizes),
       adUnitId |-> getBidIdParameter("adUnitId", bid.params),
       options |-> optionsOf(bid, bidglass)])

ImpsReversed(bids, bidglass) ==
  [i \in DOMAIN bids |-> impOf(bids[Len(bids) + 1 - i], bidglass)]

\* imps after the _each loop (lines 80-103): one per slot, in order
impsOf(bids, bidglass) == [i \in DOMAIN bids |-> impOf(bids[i], bidglass)]

\* the caller's bid objects after the _each loop: line 81-82 assign bid.sizes
bidsAfter(bids) == [i \in DOMAIN bids |-> [bids[i] EXCEPT !.sizes = normalizeSizes(@)]]

(***************************************************************************)
(* buildRequests: frame context                                            *)
(***************************************************************************)
\* window === window.top, window.parent === window.top
isTop(w) == w.depth = 0
parentIsTop(w) == w.depth <= 1

getReferer(w) ==
  IF isTop(w) THEN Str(w.href)
  ELSE IF parentIsTop(w) THEN Str(w.referrer)
  ELSE Null

OriginsSentinelWhenNested(w) ==
  LET ori == <<Plus(Plus(Str(w.protocol), Str("//")), Str(w.hostname))>>
      parts == Split(w.referrer, "/")
  IN IF Truthy(w.ancestorOrigins) THEN Arr(ori \o w.ancestorOrigins.v)
     ELSE IF ~isTop(w)
          THEN Arr(ori \o <<Plus(Plus(Index(parts, 0), Str("//")), Index(parts, 2))>>
                   \o <<Str("null")>>)
          ELSE Arr(ori)

getOrigins(w) ==
  LET ori == <<Plus(Plus(Str(w.protocol), Str("//")), Str(w.hostname))>>
      parts == Split(w.referrer, "/")
  IN IF Truthy(w.ancestorOrigins) THEN Arr(ori \o w.ancestorOrigins.v)
     ELSE IF ~isTop(w)
          THEN Arr(ori \o <<Plus(Plus(Index(parts, 0), Str("//")), Index(parts, 2))>>
                   \o (IF ~parentIsTop(w) THEN <<Str("null")>> ELSE <<>>))
          ELSE Arr(ori)

(***************************************************************************)
(* buildRequests: consent data                                             *)
(***************************************************************************)
gdprConsentObj(br) == And(br, Prop(br, "gdprConsent"))
gppConsentObj(br) == And(br, Prop(br, "gppConsent"))
gppApplicableSections(br) == And(gppConsentObj(br), Prop(gppConsentObj(br), "applicableSections"))
ortb2Regs(br) == And(And(br, Prop(br, "ortb2")), Prop(Prop(br, "ortb2"), "regs"))
ortb2Gpp(br) == And(ortb2Regs(br), Prop(ortb2Regs(br), "gpp"))

GdprAppliesAsBoolean(br) ==
  IF Truthy(And(gdprConsentObj(br), Prop(gdprConsentObj(br), "gdprApplies")))
  THEN Num(1) ELSE Bool(FALSE)

gdprAppliesField(br) ==
  IF Truthy(And(gdprConsentObj(br), Prop(gdprConsentObj(br), "gdprApplies")))
  THEN Num(1) ELSE Str("")

gdprConsentField(br) ==
  Or(And(gdprConsentObj(br), Prop(gdprConsentObj(br), "consentString")), Str(""))

gppStringField(br) ==
  Or(Or(And(gppConsentObj(br), Prop(gppConsentObj(br), "gppString")), ortb2Gpp(br)), Str(""))

GppSidWithoutGppGuard(br) ==
  IF isArray(gppApplicableSections(br)) /\ Len(gppApplicableSections(br).v) # 0
  THEN Str(Join(gppApplicableSections(br), ","))
  ELSE Or(Prop(ortb2Regs(br), "gpp_sid"), Str(""))

gppSidField(br) ==
  IF isArray(gppApplicableSections(br)) /\ Len(gppApplicableSections(br).v) # 0
  THEN Str(Join(gppApplicableSections(br), ","))
  ELSE Or(And(ortb2Gpp(br), Prop(ortb2Regs(br), "gpp_sid")), Str(""))

(***************************************************************************)
(* JSON.stringify / JSON.parse                                             *)
(***************************************************************************)
RECURSIVE JSONValue(_)
\* what JSON.stringify keeps of a value: properties holding undefined or a
\* function are left out, such array elements become null
JSONValue(x) ==
  CASE x.t = "obj" ->
         Obj([k \in {j \in DOMAIN x.v : x.v[j].t \notin {"undefined", "fn"}} |->
                JSONValue(x.v[k])])
    [] x.t = "arr" ->
         Arr([i \in DOMAIN x.v |->
                IF x.v[i].t \in {"undefined", "fn"} THEN Null ELSE JSONValue(x.v[i])])
    [] OTHER -> x
\* the serialized text, kept as the document it denotes
JSONstringify(x) == [json |-> JSONValue(x)]
JSONparse(text) == text.json

(***************************************************************************)
(* buildRequests: the payload and the request                              *)
(***************************************************************************)
bidReqOf(reqId, bids, br, w) ==
  Obj([reqId |-> Str(reqId),
       imps |-> Arr(impsOf(bids, w.bidglass)),
       ref |-> getReferer(w),
       ori |-> getOrigins(w),
       gdprApplies |-> gdprAppliesField(br),
       gdprConsent |-> gdprConsentField(br),
       gppString |-> gppStringField(br),
       gppSid |-> gppSidField(br)])

buildRequestsResult(reqId, bids, br, w) ==
  [method |-> "POST",
   url |-> "https://bid.glass/ad/hb.php?" \o "src=$$REPO_AND_VERSION$$",
   data |-> JSONstringify(bidReqOf(reqId, bids, br, w)),
   options |-> [contentType |-> "text/plain", withCredentials |-> FALSE]]

(***************************************************************************)
(* interpretResponse                                                       *)
(***************************************************************************)
NaN == [t |-> "nan"]

DigitOf(c) ==
  CASE c = "0" -> 0 [] c = "1" -> 1 [] c = "2" -> 2 [] c = "3" -> 3 [] c = "4" -> 4
    [] c = "5" -> 5 [] c = "6" -> 6 [] c = "7" -> 7 [] c = "8" -> 8 [] c = "9" -> 9
    [] OTHER -> -1

RECURSIVE DigitsEnd(_, _)
\* the position after the run of decimal digits of s that starts at i
DigitsEnd(s, i) ==
  IF i <= Len(s) /\ DigitOf(SubSeq(s, i, i)) >= 0 THEN DigitsEnd(s, i + 1) ELSE i

RECURSIVE DigitsValue(_, _, _, _)
\* the number the digits s[i..j-1] write, acc being the value read so far
DigitsValue(s, i, j, acc) ==
  IF i >= j THEN acc ELSE DigitsValue(s, i + 1, j, 10 * acc + DigitOf(SubSeq(s, i, i)))

RECURSIVE SkipSpaces(_, _)
SkipSpaces(s, i) == IF i <= Len(s) /\ SubSeq(s, i, i) = " " THEN SkipSpaces(s, i + 1) ELSE i

\* parseInt(x, 10): leading blanks, a sign, then the leading digits; NaN without digits
parseInt10(x) ==
  LET s == ToStr(x)
      b == SkipSpaces(s, 1)
      neg == b <= Len(s) /\ SubSeq(s, b, b) = "-"
      d == IF b <= Len(s) /\ SubSeq(s, b, b) \in {"-", "+"} THEN b + 1 ELSE b
      e == DigitsEnd(s, d)
  IN IF e = d THEN NaN
     ELSE Num((IF neg THEN -1 ELSE 1) * DigitsValue(s, d, e, 0))

RECURSIVE StripZeros(_, _)
\* a decimal m / 10^e without trailing zeros in its fraction
StripZeros(m, e) == IF e > 0 /\ m % 10 = 0 THEN StripZeros(m \div 10, e - 1) ELSE <<m, e>>

\* parseFloat(x) of a decimal literal without exponent: an integer is a "num",
\* a fraction is the decimal [m, e] standing for m / 10^e
parseFloat(x) ==
  LET s == ToStr(x)
      b == SkipSpaces(s, 1)
      neg == b <= Len(s) /\ SubSeq(s, b, b) = "-"
      d == IF b <= Len(s) /\ SubSeq(s, b, b) \in {"-", "+"} THEN b + 1 ELSE b
      e == DigitsEnd(s, d)
      dot == e <= Len(s) /\ SubSeq(s, e, e) = "."
      f == IF dot THEN DigitsEnd(s, e + 1) ELSE e
      whole == DigitsValue(s, d, e, 0)
      frac == IF dot THEN DigitsValue(s, e + 1, f, whole) ELSE whole
      dec == StripZeros(frac, IF dot THEN f - (e + 1) ELSE 0)
      sign == IF neg THEN -1 ELSE 1
  IN IF e = d /\ (~dot \/ f = e + 1) THEN NaN
     ELSE IF dec[2] = 0 THEN Num(sign * dec[1])
     ELSE [t |-> "dec", m |-> sign * dec[1], e |-> dec[2]]

\* the characters encodeURIComponent leaves as they are
Unreserved ==
  {"A","B","C","D","E","F","G","H","I","J","K","L","M","N","O","P","Q","R","S","T","U",
   "V","W","X","Y","Z","a","b","c","d","e","f","g","h","i","j","k","l","m","n","o","p",
   "q","r","s","t","u","v","w","x","y","z","0","1","2","3","4","5","6","7","8","9",
   "-","_",".","!","~","*","'","(",")"}

\* the escape of one reserved ASCII character (the double quote, the backslash
\* and the backquote are left out: no value of the model holds them)
PercentOf(c) ==
  CASE c = " " -> "%20" [] c = "#" -> "%23" [] c = "$" -> "%24"
    [] c = "%" -> "%25" [] c = "&" -> "%26" [] c = "+" -> "%2B" [] c = "," -> "%2C"
    [] c = "/" -> "%2F" [] c = ":" -> "%3A" [] c = ";" -> "%3B" [] c = "<" -> "%3C"
    [] c = "=" -> "%3D" [] c = ">" -> "%3E" [] c = "?" -> "%3F" [] c = "@" -> "%40"
    [] c = "[" -> "%5B" [] c = "]" -> "%5D" [] c = "^" -> "%5E"
    [] c = "{" -> "%7B" [] c = "|" -> "%7C" [] c = "}" -> "%7D"

RECURSIVE EncodeFrom(_, _)
EncodeFrom(s, i) ==
  IF i > Len(s) THEN ""
  ELSE (IF SubSeq(s, i, i) \in Unreserved THEN SubSeq(s, i, i) ELSE PercentOf(SubSeq(s, i, i)))
       \o EncodeFrom(s, i + 1)
encodeURIComponent(x) == EncodeFrom(ToStr(x), 1)

ExtraKeys == <<"gdprApplies", "gdprConsent", "gppString", "gppSid">>

\* the text put in place of '&replaceme' (lines 174-180)
urlEncodedExtras(bidReq) ==
  LET present == SelectSeq(ExtraKeys, LAMBDA key : NotNullish(Prop(bidReq, key)))
      pairs == [i \in DOMAIN present |->
                  Str(present[i] \o "=" \o encodeURIComponent(Prop(bidReq, present[i])))]
      joined == Join(Arr(pairs), "&")
  IN IF joined # "" THEN "&" \o joined ELSE ""

\* x.length
LengthOf(x) ==
  CASE x.t = "arr" -> Num(Len(x.v))
    [] x.t = "str" -> Num(Len(x.v))
    [] OTHER -> Undef

\* bidResponse.meta after lines 182-191
metaOf(serverBid) ==
  LET meta == Prop(serverBid, "meta")
      domains == Prop(meta, "advertiserDomains")
  IN IF Truthy(meta) /\ Truthy(And(domains, LengthOf(domains)))
     THEN Obj([advertiserDomains |-> domains])
     ELSE EmptyObj

\* the bid result of one server bid (lines 158-191)
bidResponseOf(serverBid, bidReq) ==
  Obj([requestId |-> Prop(serverBid, "requestId"),
       cpm |-> parseFloat(Prop(serverBid, "cpm")),
       width |-> parseInt10(Prop(serverBid, "width")),
       height |-> parseInt10(Prop(serverBid, "height")),
       creativeId |-> Prop(serverBid, "creativeId"),
       dealId |-> Or(Prop(serverBid, "dealId"), Null),
       currency |-> Or(Prop(serverBid, "currency"), Str("USD")),
       mediaType |-> Or(Prop(serverBid, "mediaType"), Str("banner")),
       netRevenue |-> Bool(TRUE),
       ttl |-> Or(Prop(serverBid, "ttl"), Num(10)),
       ad |-> Str(ReplaceFirst(Prop(serverBid, "ad").v, "&replaceme",
                               urlEncodedExtras(bidReq))),
       meta |-> metaOf(serverBid)])

InterpretReversed(response, request) ==
  LET bidReq == JSONparse(request.data)
      list == Prop(Prop(response, "body"), "bidResponses")
  IN IF isArray(list)
     THEN [i \in DOMAIN list.v |-> bidResponseOf(list.v[Len(list.v) + 1 - i], bidReq)]
     ELSE <<>>

\* the list interpretResponse returns: _each pushes one result per server bid
interpretResponseResult(response, request) ==
  LET bidReq == JSONparse(request.data)
      list == Prop(Prop(response, "body"), "bidResponses")
  IN IF isArray(list)
     THEN [i \in DOMAIN list.v |-> bidResponseOf(list.v[i], bidReq)]
     ELSE <<>>

(***************************************************************************)
(* Inputs                                                                  *)
(***************************************************************************)
SeqsUpTo(S, n) == UNION {[1..k -> S] : k \in 0..n}

\* an object of the given properties, a property whose value is the marker
\* Undef being left out
ObjectOf(props) == Obj([k \in {j \in DOMAIN props : props[j] # Undef} |-> props[k]])

Pair1 == Arr(<<Num(300), Num(250)>>)
Pair2 == Arr(<<Num(320), Num(50)>>)
\* what a sizes list may hold: pairs and entries that are no list
SizeEntries == {Pair1, Pair2, Num(300)}
\* a slot's sizes: missing, one pair, or a list of entries
SizesCases == {Undef, Pair1} \cup {Arr(s) : s \in SeqsUpTo(SizeEntries, MaxSizes)}

TargetingCases == {Undef, EmptyObj, Obj([section |-> Str("news")])}
ParamsCases ==
  {ObjectOf([adUnitId |-> a, targeting |-> t, inventory |-> x]) :
     a \in {Undef, Num(0), Num(11), Str("unit-7")},
     t \in TargetingCases,
     x \in {Undef, Str("premium")}}

DefaultParams == ObjectOf([adUnitId |-> Num(11)])
\* the slots the host holds: their sizes vary or their params do
SlotCandidates ==
  {[sizes |-> sz, params |-> DefaultParams] : sz \in SizesCases}
  \cup {[sizes |-> Arr(<<Pair1>>), params |-> p] : p \in ParamsCases}
\* the host passes on the slots isBidRequestValid accepts
ValidSlots == {c \in SlotCandidates : isBidRequestValid(c)}
SizeSlots == {c \in ValidSlots : c.params = DefaultParams}
\* the slots that stand together in one call: sizes missing, one pair, or a
\* list of at most one entry
ShortSizeSlots == {c \in SizeSlots : isArray(c.sizes) => (c.sizes = Pair1 \/ Len(c.sizes.v) <= 1)}
ParamSlots == {c \in ValidSlots : c.sizes = Arr(<<Pair1>>)}

\* the bid requests of a list of slots, the bid ids given by position
BidsOf(slots) ==
  [i \in DOMAIN slots |->
     [bidId |-> Str("bid" \o ToString(i)), sizes |-> slots[i].sizes,
      params |-> slots[i].params]]

DefaultBids == BidsOf(<<[sizes |-> Arr(<<Pair1>>), params |-> DefaultParams]>>)

\* window.bidglass: not set, an object without getTargeting, a provider
BidglassCases ==
  {Undef, EmptyObj}
  \cup {Obj([getTargeting |-> Fn(b)]) : b \in {"nothing", "empty", "page", "merge", "byUnit"}}

WindowOf(depth, referrer, ancestorOrigins, bidglass) ==
  [depth |-> depth, protocol |-> "https:", hostname |-> "pub.example",
   href |-> "https://pub.example/news/1", referrer |-> referrer,
   ancestorOrigins |-> ancestorOrigins, bidglass |-> bidglass]

DefaultWindow == WindowOf(0, "", Undef, Undef)

Referrers == {"", "https://parent.example/page/1", "http://mid.example"}
AncestorOrigins == {Str("https://parent.example"), Str("https://top.example")}
\* a frame at every depth; location.ancestorOrigins, where the platform has
\* it, lists one origin per ancestor
WindowCases ==
  UNION {{WindowOf(d, r, a, Undef) :
            r \in Referrers,
            a \in {Undef} \cup {Arr(o) : o \in [1..d -> AncestorOrigins]}} :
         d \in 0..MaxDepth}

GdprConsentCases ==
  {Undef} \cup {ObjectOf([gdprApplies |-> g, consentString |-> c]) :
                  g \in {Undef, Bool(TRUE), Bool(FALSE)},
                  c \in {Undef, Str("CONSENT123")}}
GppConsentCases ==
  {Undef} \cup {ObjectOf([gppString |-> g, applicableSections |-> a]) :
                  g \in {Undef, Str(""), Str("DBABMA~CPXx")},
                  a \in {Undef, Arr(<<>>), Arr(<<Num(7)>>), Arr(<<Num(7), Num(8)>>)}}
Ortb2Cases ==
  {Undef, EmptyObj}
  \cup {Obj([regs |-> ObjectOf([gpp |-> g, gpp_sid |-> sid])]) :
          g \in {Undef, Str(""), Str("DBACNY~BVQq")},
          sid \in {Undef, Arr(<<Num(2), Num(6)>>)}}

BidderRequestOf(gdpr, gpp, ortb2) ==
  ObjectOf([gdprConsent |-> gdpr, gppConsent |-> gpp, ortb2 |-> ortb2])

BidderRequestCases ==
  {Undef} \cup {BidderRequestOf(gdpr, gpp, ortb2) :
                  gdpr \in GdprConsentCases, gpp \in GppConsentCases, ortb2 \in Ortb2Cases}

\* the auctions whose answers are followed to the bid results
FollowedBidderRequests ==
  {Undef} \cup {BidderRequestOf(gdpr, gpp, ortb2) :
                  gdpr \in GdprConsentCases,
                  gpp \in {Undef, Obj([gppString |-> Str("DBABMA~CPXx"),
                                       applicableSections |-> Arr(<<Num(7), Num(8)>>)])},
                  ortb2 \in {Undef, Obj([regs |-> Obj([gpp |-> Str("DBACNY~BVQq"),
                                                       gpp_sid |-> Arr(<<Num(2), Num(6)>>)])])}}

\* getUniqueIdentifierStr(): some fresh identifier
ReqIds == {"2f1a9c", "3b7c44"}

BuildInputs ==
  {[bids |-> BidsOf(<<c>>), br |-> Undef, w |-> DefaultWindow] : c \in SizeSlots}
  \cup {[bids |-> BidsOf(sl), br |-> Undef, w |-> DefaultWindow] :
          sl \in SeqsUpTo(ShortSizeSlots, MaxSlots)}
  \cup {[bids |-> BidsOf(sl), br |-> Undef, w |-> WindowOf(0, "", Undef, g)] :
          sl \in SeqsUpTo(ParamSlots, MaxSlots), g \in BidglassCases}
  \cup {[bids |-> DefaultBids, br |-> Undef, w |-> w] : w \in WindowCases}
  \cup {[bids |-> DefaultBids, br |-> br, w |-> DefaultWindow] : br \in BidderRequestCases}

FollowedInputs ==
  {[bids |-> DefaultBids, br |-> br, w |-> DefaultWindow] : br \in FollowedBidderRequests}

Ads ==
  {"<div>ad</div>",
   "<script src='//bid.glass/u.js?r=1&replaceme'></script>",
   "<a href='/c?x=1&replaceme'><img src='/i?y=2&replaceme'></a>"}

MinimalServerBid(requestId, ad) ==
  Obj([requestId |-> Str(requestId), cpm |-> Str("1.50"), width |-> Str("300"),
       height |-> Str("250"), creativeId |-> Str("-1"), ad |-> Str(ad)])
FullServerBid(requestId, ad) ==
  Obj([requestId |-> Str(requestId), cpm |-> Num(2), width |-> Num(320),
       height |-> Str("50px"), creativeId |-> Str("c-9"), ad |-> Str(ad),
       dealId |-> Str("deal-1"), currency |-> Str("EUR"), mediaType |-> Str("video"),
       ttl |-> Num(30), meta |-> Obj([advertiserDomains |-> Arr(<<Str("adv.example")>>)])])

ServerBids ==
  {MinimalServerBid(r, ad) : r \in {"bid1", "bid2"}, ad \in Ads}
  \cup {FullServerBid(r, "<div>ad</div>") : r \in {"bid1", "bid2"}}

ServerResponses ==
  {Obj([body |-> Obj([bidResponses |-> Arr(l)])]) : l \in SeqsUpTo(ServerBids, MaxBids)}

\* the payloads a host may echo to interpretResponse: each consent key
\* missing, null, empty or set
PayloadCases ==
  {ObjectOf([reqId |-> Str("2f1a9c"), gdprApplies |-> ga, gdprConsent |-> gc,
             gppString |-> gs, gppSid |-> sid]) :
     ga \in {Undef, Null, Str(""), Num(1)},
     gc \in {Undef, Str(""), Str("CONSENT123")},
     gs \in {Undef, Str(""), Str("DBABMA~CPXx")},
     sid \in {Undef, Str(""), Str("7,8")}}

EchoedRequestOf(payload) ==
  [method |-> "POST",
   url |-> "https://bid.glass/ad/hb.php?" \o "src=$$REPO_AND_VERSION$$",
   data |-> JSONstringify(payload),
   options |-> [contentType |-> "text/plain", withCredentials |-> FALSE]]

(***************************************************************************)
(* The state machine                                                       *)
(***************************************************************************)
InitOn(inputs) ==
  /\ \E in \in inputs :
       /\ validBidRequests = in.bids
       /\ bidderRequest = in.br
       /\ window = in.w
  /\ given = <<>>
  /\ serverRequest = Undef
  /\ serverResponse = Undef
  /\ bidResponses = <<>>
  /\ pc = "start"

\* an auction of one slot, followed from the request to the bid results
Init == InitOn(FollowedInputs)
\* every kind of auction, up to the request
InitBuild == InitOn(BuildInputs)
\* a request already sent, its payload any of PayloadCases
InitInterpret ==
  /\ validBidRequests = DefaultBids
  /\ bidderRequest = Undef
  /\ window = DefaultWindow
  /\ given = DefaultBids
  /\ \E payload \in PayloadCases : serverRequest = EchoedRequestOf(payload)
  /\ serverResponse = Undef
  /\ bidResponses = <<>>
  /\ pc = "built"

\* spec.buildRequests(validBidRequests, bidderRequest)
BuildRequests ==
  /\ pc = "start"
  /\ \E reqId \in ReqIds :
       serverRequest' = buildRequestsResult(reqId, validBidRequests, bidderRequest, window)
  /\ given' = validBidRequests
  /\ validBidRequests' = bidsAfter(validBidRequests)
  /\ pc' = "built"
  /\ UNCHANGED <<window, bidderRequest, serverResponse, bidResponses>>

\* the host sends the request and the server answers
ServerRespond ==
  /\ pc = "built"
  /\ \E r \in ServerResponses : serverResponse' = r
  /\ pc' = "responded"
  /\ UNCHANGED <<window, validBidRequests, bidderRequest, given, serverRequest, bidResponses>>

\* spec.interpretResponse(serverResponse, serverRequest)
InterpretResponse ==
  /\ pc = "responded"
  /\ bidResponses' = interpretResponseResult(serverResponse, serverRequest)
  /\ pc' = "interpreted"
  /\ UNCHANGED <<window, validBidRequests, bidderRequest, given, serverRequest, serverResponse>>

Next == BuildRequests \/ ServerRespond \/ InterpretResponse
NextBuild == BuildRequests
NextInterpret == ServerRespond \/ InterpretResponse

Spec == Init /\ [][Next]_vars
SpecBuild == InitBuild /\ [][NextBuild]_vars
SpecInterpret == InitInterpret /\ [][NextInterpret]_vars

(***************************************************************************)
(* Properties                                                              *)
(***************************************************************************)
Token == "&replaceme"

\* the payload of the request, as interpretResponse and the server read it
Payload == JSONparse(serverRequest.data)
\* the impressions of the payload
Imps == Prop(Payload, "imps").v
\* the server's bid entries
ServerBidList == Prop(Prop(serverResponse, "body"), "bidResponses").v

\* a consent key of the payload is the empty string or missing
EmptyOrAbsent(key) == Prop(Payload, key) \in {Undef, Null, Str("")}

\* C1: when the payload's gdprConsent is "CONSENT123" and gdprApplies, gppString
\* and gppSid are each the empty string or absent, a creative holding the token
\* comes back with the token replaced by exactly "&gdprConsent=CONSENT123".
C1_OnlyGdprConsentSubstituted ==
  (/\ pc = "interpreted"
   /\ Prop(Payload, "gdprConsent") = Str("CONSENT123")
   /\ EmptyOrAbsent("gdprApplies") /\ EmptyOrAbsent("gppString") /\ EmptyOrAbsent("gppSid"))
  => \A i \in DOMAIN ServerBidList :
       LET ad == Prop(ServerBidList[i], "ad").v
       IN IndexOf(ad, Token) # 0
          => Prop(bidResponses[i], "ad")
               = Str(ReplaceFirst(ad, Token, "&gdprConsent=CONSENT123"))

\* the auction carries no consent signal at all
NoConsentSignals ==
  /\ Prop(bidderRequest, "gdprConsent") = Undef
  /\ Prop(bidderRequest, "gppConsent") = Undef
  /\ Prop(Prop(bidderRequest, "ortb2"), "regs") = Undef

\* C2: when the request was built without any consent signal, the token of a
\* creative is removed: the returned ad is the creative with the token replaced
\* by the empty string.
C2_TokenRemovedWithoutConsent ==
  (pc = "interpreted" /\ NoConsentSignals)
  => \A i \in DOMAIN ServerBidList :
       Prop(bidResponses[i], "ad")
         = Str(ReplaceFirst(Prop(ServerBidList[i], "ad").v, Token, ""))

\* a sizes list that mixes entries that are no list with pairs
MixedSizes(sizes) ==
  /\ isArray(sizes)
  /\ \E j \in DOMAIN sizes.v : isArray(sizes.v[j])
  /\ \E j \in DOMAIN sizes.v : ~isArray(sizes.v[j])

\* C3: for a sizes list mixing non-list entries with pairs, wherever they stand,
\* the impression's sizes are the pairs alone, in their original order.
C3_OnlyPairsKept ==
  pc = "built"
  => \A i \in DOMAIN given :
       MixedSizes(given[i].sizes)
       => Prop(Imps[i], "sizes") = Arr(SelectSeq(given[i].sizes.v, isArray))

\* gppConsent.applicableSections and ortb2.regs of the auction
Sections == Prop(Prop(bidderRequest, "gppConsent"), "applicableSections")
Regs == Prop(Prop(bidderRequest, "ortb2"), "regs")
SectionsGiven == isArray(Sections) /\ Len(Sections.v) > 0

\* C4 (as claimed): gppSid is the applicable sections joined with commas when
\* that list is non-empty; otherwise the gpp_sid of ortb2.regs when regs carries
\* one, whether or not regs.gpp is set; otherwise the empty string.
C4_GppSidFallbackWithoutGpp ==
  pc = "built"
  => Prop(Payload, "gppSid")
       = IF SectionsGiven THEN Str(Join(Sections, ","))
         ELSE IF Prop(Regs, "gpp_sid") # Undef THEN Prop(Regs, "gpp_sid")
         ELSE Str("")

\* C4 (amended): gppSid is the applicable sections joined with commas when that
\* list is non-empty; otherwise the gpp_sid of ortb2.regs when regs carries one
\* and regs.gpp is a non-empty string; otherwise the empty string.
C4_GppSidFallbackNeedsGpp ==
  pc = "built"
  => Prop(Payload, "gppSid")
       = IF SectionsGiven THEN Str(Join(Sections, ","))
         ELSE IF Prop(Regs, "gpp_sid") # Undef /\ Prop(Regs, "gpp") \notin {Undef, Str("")}
              THEN Prop(Regs, "gpp_sid")
         ELSE Str("")

\* the sections list is empty, regs.gpp is set: gppSid is regs.gpp_sid
C4_Witness ==
  /\ pc = "built"
  /\ Sections = Arr(<<>>)
  /\ Prop(Regs, "gpp") = Str("DBACNY~BVQq")
  /\ Prop(Payload, "gppSid") = Arr(<<Num(2), Num(6)>>)

\* C5: after buildRequests every slot bid request the host passed with a sizes
\* value (one pair or a list, non-list entries or not) is what it was before
\* the call, sizes and params alike.
C5_InputsUnchanged ==
  pc # "start"
  => /\ Len(validBidRequests) = Len(given)
     /\ \A i \in DOMAIN given :
          isArray(given[i].sizes) => validBidRequests[i] = given[i]

\* the adUnitId of slot i as the host passed it
GivenUnit(i) == Prop(given[i].params, "adUnitId")
\* the params of slot i without adUnitId
GivenRest(i) ==
  Obj([k \in (DOMAIN given[i].params.v) \ {"adUnitId"} |-> given[i].params.v[k]])

\* one request, one impression per slot in order, with the slot's ids
OneImpPerSlot ==
  /\ serverRequest.method = "POST"
  /\ Len(Imps) = Len(given)
  /\ \A i \in DOMAIN given :
       /\ Prop(Imps[i], "bidId") = given[i].bidId
       /\ Prop(Imps[i], "adUnitId") = GivenUnit(i)

\* C6 (as claimed): one request with one impression per slot, in order, each
\* with the slot's bidId and adUnitId and with options equal to the slot's
\* params without adUnitId.
C6_OptionsAreParamsWithoutUnit ==
  pc = "built"
  => /\ OneImpPerSlot
     /\ \A i \in DOMAIN given : Prop(Imps[i], "options") = GivenRest(i)

\* a provider with a getTargeting function is registered
ProviderRegistered ==
  window.bidglass.t = "obj" /\ Prop(window.bidglass, "getTargeting").t = "fn"
\* what the provider answers for slot i
ProviderAnswer(i) ==
  CallGetTargeting(Prop(window.bidglass, "getTargeting"), GivenUnit(i),
                   Prop(given[i].params, "targeting"))
\* the provider answers slot i with a non-empty mapping
ProviderOverrides(i) ==
  /\ ProviderRegistered
  /\ ProviderAnswer(i).t = "obj"
  /\ DOMAIN ProviderAnswer(i).v # {}

\* C6 (amended): one request with one impression per slot, in order, each with
\* the slot's bidId and adUnitId and with options equal to the slot's params
\* without adUnitId, except that targeting is the provider's answer when a
\* registered provider answers with a non-empty mapping.
C6_OptionsAreParamsWithTargetingMerged ==
  pc = "built"
  => /\ OneImpPerSlot
     /\ \A i \in DOMAIN given :
          Prop(Imps[i], "options")
            = IF ProviderOverrides(i)
              THEN Obj([k \in (DOMAIN GivenRest(i).v) \cup {"targeting"} |->
                          IF k = "targeting" THEN ProviderAnswer(i) ELSE GivenRest(i).v[k]])
              ELSE GivenRest(i)

\* two slots with different params, the provider overriding the targeting of
\* the second only
C6_Witness ==
  /\ pc = "built"
  /\ Len(given) = 2
  /\ given[1].params # given[2].params
  /\ ~ProviderOverrides(1) /\ ProviderOverrides(2)
  /\ DOMAIN Prop(Imps[2], "options").v = {"targeting", "inventory"}

\* C7: with a provider registered, an empty answer (or none) leaves
\* options.targeting the slot's own targeting and a non-empty mapping becomes
\* options.targeting; without a provider options.targeting is the slot's own.
C7_TargetingOverride ==
  pc = "built"
  => \A i \in DOMAIN given :
       Prop(Prop(Imps[i], "options"), "targeting")
         = IF ProviderOverrides(i) THEN ProviderAnswer(i)
           ELSE Prop(given[i].params, "targeting")

\* a provider answers the first slot with an empty mapping and the second with
\* a non-empty one, both slots having targeting of their own
C7_Witness ==
  /\ pc = "built"
  /\ Len(given) = 2
  /\ ProviderRegistered
  /\ ProviderAnswer(1) = EmptyObj
  /\ ProviderOverrides(2)
  /\ Prop(given[1].params, "targeting") = Obj([section |-> Str("news")])
  /\ Prop(given[2].params, "targeting") = Obj([section |-> Str("news")])
  /\ Prop(Prop(Imps[2], "options"), "targeting") # Prop(given[2].params, "targeting")

\* C8: gdprApplies is the number 1 or the empty string, never false: 1 exactly
\* when the gdprConsent object is there and its gdprApplies flag is true.
C8_GdprAppliesOneOrEmpty ==
  pc = "built"
  => /\ Prop(Payload, "gdprApplies") \in {Num(1), Str("")}
     /\ Prop(Payload, "gdprApplies") = Num(1)
          <=> Prop(Prop(bidderRequest, "gdprConsent"), "gdprApplies") = Bool(TRUE)

\* the flag is false and gdprApplies is the empty string
C8_Witness ==
  /\ pc = "built"
  /\ Prop(Prop(bidderRequest, "gdprConsent"), "gdprApplies") = Bool(FALSE)
  /\ Prop(Payload, "gdprApplies") = Str("")

\* C9: interpretResponse returns one bid result per entry of bidResponses, in
\* the server's order: result i has the requestId of entry i.
C9_OneResultPerEntryInOrder ==
  pc = "interpreted"
  => /\ Len(bidResponses) = Len(ServerBidList)
     /\ \A i \in DOMAIN ServerBidList :
          Prop(bidResponses[i], "requestId") = Prop(ServerBidList[i], "requestId")

\* the server answered bid2 before bid1
C9_Witness ==
  /\ pc = "interpreted"
  /\ Len(ServerBidList) >= 2
  /\ Prop(bidResponses[1], "requestId") = Str("bid2")
  /\ Prop(bidResponses[2], "requestId") = Str("bid1")

\* the parent's origin as line 65-67 derive it from the referrers of the model
ParentOriginOf(referrer) ==
  CASE referrer = "https://parent.example/page/1" -> Str("https://parent.example")
    [] referrer = "http://mid.example" -> Str("http://mid.example")
    [] referrer = "" -> Str("//undefined")

\* C10: origins start with the frame's own origin; then the ancestor origins
\* in order and nothing else where the platform lists them; otherwise nothing in
\* the top frame, the parent origin derived from the referrer in a frame whose
\* parent is the top frame, and that origin followed by 'null' in a deeper frame.
C10_OriginsChain ==
  pc = "built"
  => Prop(Payload, "ori").v
       = <<Str("https://pub.example")>>
         \o (IF window.ancestorOrigins # Undef THEN window.ancestorOrigins.v
             ELSE IF window.depth = 0 THEN <<>>
             ELSE IF window.depth = 1 THEN <<ParentOriginOf(window.referrer)>>
             ELSE <<ParentOriginOf(window.referrer), Str("null")>>)

\* a frame two levels deep on a platform without ancestorOrigins
C10_Witness ==
  /\ pc = "built"
  /\ window.depth = 2
  /\ window.ancestorOrigins = Undef
  /\ Prop(Payload, "ori").v
       = <<Str("https://pub.example"), Str("https://parent.example"), Str("null")>>

====
